---- MODULE Spec2Model ----
(***************************************************************************)
(* Model of the Ordiaa state hook, useOrdiaaState                          *)
(* (src/frontend/src/App.tsx, lines 185-400).                              *)
(*                                                                         *)
(* The hook keeps one OrdiaaState value in a React useState cell.  Every   *)
(* mutation calls setState with an updater function (prev) => newState;    *)
(* React queues the updater and applies the queue, in call order, at the   *)
(* next render.  The queries (getLog, getTodos, isHabitCompleted,          *)
(* getCompletionRate) are closures over the `state` of the last render.    *)
(* A useEffect with dependency [state] calls saveState(state) after every  *)
(* render whose state object differs from the previous one, and after the  *)
(* first render.                                                           *)
(*                                                                         *)
(*   state          the OrdiaaState returned by useState at the last       *)
(*                  render (what the queries read)                         *)
(*   next           the update queue of the useState cell, held as the     *)
(*                  value it reduces to: the updaters queued so far        *)
(*                  applied in call order to `state`                       *)
(*   scheduled      a setState call has been made since the last render    *)
(*   effectPending  a render has committed and its useEffect has not run   *)
(*   slot           the durable localStorage slot                          *)
(*   now            Date.now(), in milliseconds                            *)
(*   calls          number of mutation calls made so far (bounded)         *)
(*   last           the mutation call made most recently since the last    *)
(*                  render                                                 *)
(*   other          a second instance of the hook (another tab of the same *)
(*                  browser) that shares the durable slot: its state, its  *)
(*                  queue and its scheduling, once it has been opened      *)
(***************************************************************************)
EXTENDS Integers, Sequences, FiniteSets, TLC

VARIABLES state, next, scheduled, effectPending, slot, now, calls, last, other

vars == <<state, next, scheduled, effectPending, slot, now, calls, last, other>>

(***************************************************************************)
(* Bounds of the model.                                                    *)
(***************************************************************************)
\* Date.now() ranges over 1..MaxClock.
MaxClock == 2
\* At most MaxCalls mutation calls are made in one run.
MaxCalls == 2

(***************************************************************************)
(* Input domains.                                                          *)
(***************************************************************************)
Days == {"2024-01-01", "2024-01-02"}

\* Date values handed to the hook: a local calendar day and a time of day.
Dates ==
  { [day |-> "2024-01-01", hour |-> 0],
    [day |-> "2024-01-01", hour |-> 23],
    [day |-> "2024-01-02", hour |-> 12] }

\* The value of an optional argument that the caller left out.
Undefined == "undefined"

\* (priority, status) argument pairs passed to addTodo.
AddTodoArgs ==
  { <<Undefined, Undefined>>, <<"high", "done">>, <<"low", "doing">> }

\* Partial<TodoItem> values passed to updateTodo.
TodoUpdates ==
  { [status |-> "done"],
    [text |-> "Buy oat milk", priority |-> "low", status |-> "doing"] }

LogTexts == {"", "rest day"}

\* Ids issued before this session (id "0") and the ids Date.now() can have
\* produced up to the present moment.
KnownIds == { ToString(t) : t \in 0..now }

(***************************************************************************)
(* JavaScript object helpers.                                              *)
(***************************************************************************)
EmptyObject == [k \in {} |-> TRUE]

\* { ...m, [k]: v }
Put(m, k, v) == [x \in (DOMAIN m) \cup {k} |-> IF x = k THEN v ELSE m[x]]

\* m[k] || []
GetOrEmptySeq(m, k) == IF k \in DOMAIN m THEN m[k] ELSE <<>>

\* m[k] || ""
GetOrEmptyString(m, k) == IF k \in DOMAIN m THEN m[k] ELSE ""

\* Truthiness of m[k] for a boolean-valued m: a missing key reads undefined.
Truthy(m, k) == IF k \in DOMAIN m THEN m[k] ELSE FALSE

(***************************************************************************)
(* lib/storage: formatDate, saveState, loadState.                          *)
(***************************************************************************)
\* The canonical date-only key of a Date: the time of day is dropped.
formatDate(date) == date.day

DefaultState ==
  [habits |-> <<>>, completions |-> EmptyObject, logs |-> EmptyObject,
   todos |-> EmptyObject]

\* An object as JSON text: the set of its "key": value members.
Members(m) == { <<k, m[k]>> : k \in DOMAIN m }

\* The object that a set of "key": value members denotes.
FromMembers(ms) ==
  [k \in { p[1] : p \in ms } |-> (CHOOSE p \in ms : p[1] = k)[2]]

\* JSON.stringify(state)
Serialize(s) ==
  [kind |-> "json",
   habits |-> s.habits,
   completions |-> Members(s.completions),
   logs |-> Members(s.logs),
   todos |-> Members(s.todos)]

\* JSON.parse(text)
Parse(text) ==
  [habits |-> text.habits,
   completions |-> FromMembers(text.completions),
   logs |-> FromMembers(text.logs),
   todos |-> FromMembers(text.todos)]

AbsentSlot == [kind |-> "absent"]

CorruptSlot == [kind |-> "garbage"]

\* saveState(state): the slot's new content.
saveState(s) == Serialize(s)

\* loadState(): the state read from the slot, or the default.
loadState(content) ==
  IF content.kind = "json" THEN Parse(content) ELSE DefaultState

\* A document saved by an earlier session: one habit, one mark, one log, one
\* to-do item, all with the id "0".
SavedState ==
  [habits |-> <<[id |-> "0", name |-> "Read", emoji |-> "book"]>>,
   completions |-> Put(EmptyObject, "0-2024-01-01", TRUE),
   logs |-> Put(EmptyObject, "2024-01-01", "ran 5k"),
   todos |-> Put(EmptyObject, "2024-01-01",
                 <<[id |-> "0", text |-> "Buy milk", completed |-> FALSE,
                    status |-> "todo", priority |-> "medium",
                    createdAt |-> "2024-01-01"]>>)]

InitialSlots == {AbsentSlot, CorruptSlot, Serialize(SavedState)}

(***************************************************************************)
(* The calls recorded in `last`.                                           *)
(***************************************************************************)
NoCall == [op |-> "none", key |-> "", id |-> ""]

Call(op, key, id) == [op |-> op, key |-> key, id |-> id]

\* The second instance before it is opened.
NoTab ==
  [open |-> FALSE, state |-> DefaultState, next |-> DefaultState,
   scheduled |-> FALSE, effectPending |-> FALSE]

\* Seeded fault: the store is a plain mutable object, written at once.
setState_Immediate(updated, call) ==
  /\ ~effectPending
  /\ calls < MaxCalls
  /\ next' = updated
  /\ state' = updated
  /\ scheduled' = TRUE
  /\ calls' = calls + 1
  /\ last' = call
  /\ UNCHANGED <<effectPending, slot, now, other>>

(***************************************************************************)
(* setState((prev) => updated): the updater joins the queue; nothing else  *)
(* changes until the next render.                                          *)
(***************************************************************************)
setState(updated, call) ==
  /\ ~effectPending
  /\ calls < MaxCalls
  /\ last' = call
  /\ next' = updated
  /\ scheduled' = TRUE
  /\ calls' = calls + 1
  /\ UNCHANGED <<state, effectPending, slot, now, other>>

(***************************************************************************)
(* Updaters: the (prev) => ... functions handed to setState.               *)
(***************************************************************************)
\* Seeded fault: the mark is set, not flipped.
toggleHabitUpdate_SetTrue(prev, key) ==
  [prev EXCEPT !.completions = Put(prev.completions, key, TRUE)]

toggleHabitUpdate(prev, key) ==
  [prev EXCEPT !.completions = Put(prev.completions, key, ~Truthy(prev.completions, key))]

\* Seeded fault: the text is added to the entry already there.
updateLogUpdate_Append(prev, dateStr, text) ==
  [prev EXCEPT !.logs = Put(prev.logs, dateStr, GetOrEmptyString(prev.logs, dateStr) \o text)]

updateLogUpdate(prev, dateStr, text) ==
  [prev EXCEPT !.logs = Put(prev.logs, dateStr, text)]

\* Seeded fault: the new item goes to the front of the sequence.
addTodoUpdate_Prepend(prev, dateStr, newTodo) ==
  [prev EXCEPT !.todos =
     Put(prev.todos, dateStr, <<newTodo>> \o GetOrEmptySeq(prev.todos, dateStr))]

addTodoUpdate(prev, dateStr, newTodo) ==
  [prev EXCEPT !.todos =
     Put(prev.todos, dateStr, Append(GetOrEmptySeq(prev.todos, dateStr), newTodo))]

\* Seeded fault: un-checking leaves the status as it was.
toggleTodoItem_KeepStatus(todo, todoId) ==
  IF todo.id = todoId
    THEN LET newCompleted == ~todo.completed
         IN  [todo EXCEPT !.completed = newCompleted,
                          !.status = IF newCompleted THEN "done" ELSE todo.status]
    ELSE todo

\* The map callback of toggleTodo.
toggleTodoItem(todo, todoId) ==
  IF todo.id = todoId
    THEN LET newCompleted == ~todo.completed
         IN  [todo EXCEPT !.completed = newCompleted,
                          !.status = IF newCompleted THEN "done" ELSE "todo"]
    ELSE todo

\* Seeded fault: the item is looked up by id under every date.
toggleTodoUpdate_AllDates(prev, dateStr, todoId) ==
  LET all == Put(prev.todos, dateStr, GetOrEmptySeq(prev.todos, dateStr))
  IN  [prev EXCEPT !.todos =
         [ds \in DOMAIN all |->
            [k \in 1..Len(all[ds]) |-> toggleTodoItem(all[ds][k], todoId)]]]

toggleTodoUpdate(prev, dateStr, todoId) ==
  LET old == GetOrEmptySeq(prev.todos, dateStr)
  IN  [prev EXCEPT !.todos =
         Put(prev.todos, dateStr,
             [k \in 1..Len(old) |-> toggleTodoItem(old[k], todoId)])]

\* Seeded fault: an update of the status carries completed with it.
Merge_SyncCompleted(todo, updates) ==
  [f \in (DOMAIN todo) \cup (DOMAIN updates) |->
     IF f = "completed" /\ "status" \in DOMAIN updates
       THEN updates["status"] = "done"
       ELSE IF f \in DOMAIN updates THEN updates[f] ELSE todo[f]]

\* { ...todo, ...updates }
Merge(todo, updates) ==
  [f \in (DOMAIN todo) \cup (DOMAIN updates) |->
     IF f \in DOMAIN updates THEN updates[f] ELSE todo[f]]

updateTodoUpdate(prev, dateStr, todoId, updates) ==
  LET old == GetOrEmptySeq(prev.todos, dateStr)
  IN  [prev EXCEPT !.todos =
         Put(prev.todos, dateStr,
             [k \in 1..Len(old) |->
                IF old[k].id = todoId THEN Merge(old[k], updates) ELSE old[k]])]

\* Seeded fault: the hole left by the first matching item is filled with the
\* last item of the sequence.
deleteTodoUpdate_SwapRemove(prev, dateStr, todoId) ==
  LET old == GetOrEmptySeq(prev.todos, dateStr)
      hits == { k \in 1..Len(old) : old[k].id = todoId }
      hole == CHOOSE k \in hits : \A j \in hits : k <= j
      new == IF hits = {}
               THEN old
               ELSE [k \in 1..(Len(old) - 1) |-> IF k = hole THEN old[Len(old)] ELSE old[k]]
  IN  [prev EXCEPT !.todos = Put(prev.todos, dateStr, new)]

deleteTodoUpdate(prev, dateStr, todoId) ==
  LET keep(todo) == todo.id # todoId
  IN  [prev EXCEPT !.todos =
         Put(prev.todos, dateStr, SelectSeq(GetOrEmptySeq(prev.todos, dateStr), keep))]

addHabitUpdate(prev, newHabit) ==
  [prev EXCEPT !.habits = Append(prev.habits, newHabit)]

\* Seeded fault: the deleted habit's marks are cleared with it.
deleteHabitUpdate_Cascade(prev, habitId) ==
  LET keep(h) == h.id # habitId
      gone == { habitId \o "-" \o day : day \in Days }
  IN  [prev EXCEPT !.habits = SelectSeq(prev.habits, keep),
                   !.completions = [k \in (DOMAIN prev.completions) \ gone |->
                                      prev.completions[k]]]

deleteHabitUpdate(prev, habitId) ==
  LET keep(h) == h.id # habitId
  IN  [prev EXCEPT !.habits = SelectSeq(prev.habits, keep)]

(***************************************************************************)
(* Mutations.                                                              *)
(***************************************************************************)
\* Seeded fault: the new state is built from the rendered state, not from
\* the updater's prev.
toggleHabit_Stale(habitId, date) ==
  LET dateStr == formatDate(date)
      key == habitId \o "-" \o dateStr
  IN  setState(toggleHabitUpdate(state, key), Call("toggleHabit", dateStr, habitId))

toggleHabit(habitId, date) ==
  LET dateStr == formatDate(date)
      key == habitId \o "-" \o dateStr
  IN  setState(toggleHabitUpdate(next, key), Call("toggleHabit", dateStr, habitId))

updateLog(date, text) ==
  LET dateStr == formatDate(date)
  IN  setState(updateLogUpdate(next, dateStr, text), Call("updateLog", dateStr, ""))

\* Seeded fault: a new item is never completed, whatever its status.
addTodo_NeverCompleted(date, text, priorityArg, statusArg) ==
  LET priority == IF priorityArg = Undefined THEN "medium" ELSE priorityArg
      status == IF statusArg = Undefined THEN "todo" ELSE statusArg
      dateStr == formatDate(date)
      newTodo == [id |-> ToString(now), text |-> text,
                  completed |-> FALSE, status |-> status,
                  priority |-> priority, createdAt |-> dateStr]
  IN  setState(addTodoUpdate(next, dateStr, newTodo),
               Call("addTodo", dateStr, ToString(now)))

addTodo(date, text, priorityArg, statusArg) ==
  LET priority == IF priorityArg = Undefined THEN "medium" ELSE priorityArg
      status == IF statusArg = Undefined THEN "todo" ELSE statusArg
      dateStr == formatDate(date)
      newTodo == [id |-> ToString(now), text |-> text,
                  completed |-> (status = "done"), status |-> status,
                  priority |-> priority, createdAt |-> dateStr]
  IN  setState(addTodoUpdate(next, dateStr, newTodo),
               Call("addTodo", dateStr, ToString(now)))

toggleTodo(date, todoId) ==
  LET dateStr == formatDate(date)
  IN  setState(toggleTodoUpdate(next, dateStr, todoId),
               Call("toggleTodo", dateStr, todoId))

updateTodo(date, todoId, updates) ==
  LET dateStr == formatDate(date)
  IN  setState(updateTodoUpdate(next, dateStr, todoId, updates),
               Call("updateTodo", dateStr, todoId))

deleteTodo(date, todoId) ==
  LET dateStr == formatDate(date)
  IN  setState(deleteTodoUpdate(next, dateStr, todoId),
               Call("deleteTodo", dateStr, todoId))

addHabit(name, emoji) ==
  LET newHabit == [id |-> ToString(now), name |-> name, emoji |-> emoji]
  IN  setState(addHabitUpdate(next, newHabit), Call("addHabit", "", ToString(now)))

deleteHabit(habitId) ==
  setState(deleteHabitUpdate(next, habitId), Call("deleteHabit", "", habitId))

(***************************************************************************)
(* Queries: closures over the state of the last render.                    *)
(***************************************************************************)
getLog(date) == GetOrEmptyString(state.logs, formatDate(date))

getTodos(date) == GetOrEmptySeq(state.todos, formatDate(date))

isHabitCompleted(habitId, date) ==
  LET key == habitId \o "-" \o formatDate(date)
  IN  Truthy(state.completions, key)

\* Math.round(num / den) for num >= 0, den > 0: halves round up.
MathRound(num, den) == (2 * num + den) \div (2 * den)

\* Seeded fault: every true mark of the day counts, also a deleted habit's.
getCompletionRate_AllMarks(date) ==
  LET dateStr == formatDate(date)
      total == Len(state.habits)
      completed ==
        Cardinality({ h \in KnownIds : Truthy(state.completions, h \o "-" \o dateStr) })
  IN  IF total = 0 THEN 0 ELSE MathRound(completed * 100, total)

\* Seeded fault: with no habits, "all of them" are complete.
getCompletionRate_EmptyIsFull(date) ==
  LET dateStr == formatDate(date)
      total == Len(state.habits)
      done(h) == Truthy(state.completions, h.id \o "-" \o dateStr)
      completed == Len(SelectSeq(state.habits, done))
  IN  IF total = 0 THEN 100 ELSE MathRound(completed * 100, total)

getCompletionRate(date) ==
  LET dateStr == formatDate(date)
      total == Len(state.habits)
      done(h) == Truthy(state.completions, h.id \o "-" \o dateStr)
      completed == Len(SelectSeq(state.habits, done))
  IN  IF total = 0 THEN 0 ELSE MathRound(completed * 100, total)

\* The local calendar around the days of the model, oldest day first.
Calendar ==
  <<"2023-12-29", "2023-12-30", "2023-12-31", "2024-01-01", "2024-01-02">>

DayIndex(day) == CHOOSE i \in 1..Len(Calendar) : Calendar[i] = day

\* date.setDate(date.getDate() - i): the same time of day, i days earlier.
setDateBack(date, i) == [date EXCEPT !.day = Calendar[DayIndex(date.day) - i]]

\* date.toLocaleDateString("en-US", { month: "short", day: "numeric" })
toLocaleDateString(date) ==
  CASE date.day = "2023-12-29" -> "Dec 29"
    [] date.day = "2023-12-30" -> "Dec 30"
    [] date.day = "2023-12-31" -> "Dec 31"
    [] date.day = "2024-01-01" -> "Jan 1"
    [] date.day = "2024-01-02" -> "Jan 2"

\* The window lengths asked of getCompletionHistory.
HistoryDays == {1, 2, 3}

\* The loop counting up from today, so that the newest day comes first.
RECURSIVE HistoryLoop_NewestFirst(_, _, _, _)
HistoryLoop_NewestFirst(history, i, days, today) ==
  IF i > days - 1
    THEN history
    ELSE LET date == setDateBack(today, i)
         IN  HistoryLoop_NewestFirst(
               Append(history, [date |-> toLocaleDateString(date),
                                rate |-> getCompletionRate(date)]),
               i + 1, days, today)

\* for (let i = days - 1; i >= 0; i--) { ...; history.push({date, rate}) }
RECURSIVE HistoryLoop(_, _, _, _)
HistoryLoop(history, i, days, today) ==
  IF i < 0
    THEN history
    ELSE LET date == setDateBack(today, i)
         IN  HistoryLoop(
               Append(history, [date |-> toLocaleDateString(date),
                                rate |-> getCompletionRate(date)]),
               i - 1, days, today)

\* Seeded fault: the history is built from today backwards.
getCompletionHistory_NewestFirst(days, today) ==
  HistoryLoop_NewestFirst(<<>>, 0, days, today)

\* getCompletionHistory(days), called while new Date() is `today`.
getCompletionHistory(days, today) == HistoryLoop(<<>>, days - 1, days, today)

(***************************************************************************)
(* React: render and effect.                                               *)
(***************************************************************************)
\* Seeded fault: the effect depends on [state.habits] only.
Render_EffectOnHabitsOnly ==
  /\ scheduled
  /\ ~effectPending
  /\ state' = next
  /\ scheduled' = FALSE
  /\ effectPending' = (next.habits # state.habits)
  /\ last' = NoCall
  /\ UNCHANGED <<next, slot, now, calls, other>>

\* A render: useState returns the queue's result.  Every updater builds a
\* new object, so the [state] dependency of the effect has changed.
Render ==
  /\ scheduled
  /\ ~effectPending
  /\ state' = next
  /\ scheduled' = FALSE
  /\ effectPending' = TRUE
  /\ last' = NoCall
  /\ UNCHANGED <<next, slot, now, calls, other>>

\* Seeded fault: the save keeps the habits of the slot that the state lacks.
RunEffect_Merge ==
  LET mine == Serialize(state)
      missing(h) == \A j \in 1..Len(state.habits) : state.habits[j] # h
      merged == IF slot.kind = "json"
                  THEN [mine EXCEPT !.habits = @ \o SelectSeq(slot.habits, missing)]
                  ELSE mine
  IN  /\ effectPending
      /\ slot' = merged
      /\ effectPending' = FALSE
      /\ UNCHANGED <<state, next, scheduled, now, calls, last, other>>

\* useEffect(() => { saveState(state); }, [state])
RunEffect ==
  /\ effectPending
  /\ slot' = saveState(state)
  /\ effectPending' = FALSE
  /\ UNCHANGED <<state, next, scheduled, now, calls, last, other>>

\* The millisecond clock advances.
Tick ==
  /\ ~effectPending
  /\ now < MaxClock
  /\ now' = now + 1
  /\ UNCHANGED <<state, next, scheduled, effectPending, slot, calls, last, other>>

(***************************************************************************)
(* The specification.                                                      *)
(***************************************************************************)
\* First render: useState(loadState); the effect runs after it.
\* Seeded fault: the first render leaves no effect to run.
Init_NoMountEffect ==
  /\ slot \in InitialSlots
  /\ state = loadState(slot)
  /\ next = state
  /\ scheduled = FALSE
  /\ effectPending = FALSE
  /\ now = 1
  /\ calls = 0
  /\ last = NoCall
  /\ other = NoTab

Init ==
  /\ slot \in InitialSlots
  /\ state = loadState(slot)
  /\ next = state
  /\ scheduled = FALSE
  /\ effectPending = TRUE
  /\ now = 1
  /\ calls = 0
  /\ last = NoCall
  /\ other = NoTab

ToggleHabitStep == \E h \in KnownIds, d \in Dates : toggleHabit(h, d)

UpdateLogStep == \E d \in Dates, t \in LogTexts : updateLog(d, t)

AddTodoStep == \E d \in Dates, a \in AddTodoArgs : addTodo(d, "Buy milk", a[1], a[2])

ToggleTodoStep == \E d \in Dates, i \in KnownIds : toggleTodo(d, i)

UpdateTodoStep == \E d \in Dates, i \in KnownIds, u \in TodoUpdates : updateTodo(d, i, u)

DeleteTodoStep == \E d \in Dates, i \in KnownIds : deleteTodo(d, i)

AddHabitStep == addHabit("Walk", "shoe")

DeleteHabitStep == \E h \in KnownIds : deleteHabit(h)

Next ==
  \/ ToggleHabitStep
  \/ UpdateLogStep
  \/ AddTodoStep
  \/ ToggleTodoStep
  \/ UpdateTodoStep
  \/ DeleteTodoStep
  \/ AddHabitStep
  \/ DeleteHabitStep
  \/ Render
  \/ RunEffect
  \/ Tick

Spec == Init /\ [][Next]_vars

(***************************************************************************)
(* Two instances of the hook on one durable slot.  The second instance     *)
(* runs the same code on its own useState cell; only the slot is shared.   *)
(***************************************************************************)
\* A mutation of the second instance: setState with an updater.
OtherSetState(updated) ==
  /\ other.open
  /\ ~other.effectPending
  /\ calls < MaxCalls
  /\ other' = [other EXCEPT !.next = updated, !.scheduled = TRUE]
  /\ calls' = calls + 1
  /\ UNCHANGED <<state, next, scheduled, effectPending, slot, now, last>>

\* The second instance mounts: useState(loadState), the effect is pending.
OtherOpen ==
  /\ ~other.open
  /\ other' = [open |-> TRUE, state |-> loadState(slot), next |-> loadState(slot),
               scheduled |-> FALSE, effectPending |-> TRUE]
  /\ UNCHANGED <<state, next, scheduled, effectPending, slot, now, calls, last>>

OtherAddHabit ==
  OtherSetState(addHabitUpdate(other.next,
                  [id |-> ToString(now), name |-> "Walk", emoji |-> "shoe"]))

OtherUpdateLog ==
  \E d \in Dates, t \in LogTexts :
    OtherSetState(updateLogUpdate(other.next, formatDate(d), t))

OtherRender ==
  /\ other.open
  /\ other.scheduled
  /\ ~other.effectPending
  /\ other' = [other EXCEPT !.state = other.next, !.scheduled = FALSE,
                            !.effectPending = TRUE]
  /\ UNCHANGED <<state, next, scheduled, effectPending, slot, now, calls, last>>

OtherRunEffect ==
  /\ other.open
  /\ other.effectPending
  /\ slot' = saveState(other.state)
  /\ other' = [other EXCEPT !.effectPending = FALSE]
  /\ UNCHANGED <<state, next, scheduled, effectPending, now, calls, last>>

NextShared ==
  \/ AddTodoStep
  \/ UpdateLogStep
  \/ Render
  \/ RunEffect
  \/ Tick
  \/ OtherOpen
  \/ OtherAddHabit
  \/ OtherUpdateLog
  \/ OtherRender
  \/ OtherRunEffect

SpecShared == Init /\ [][NextShared]_vars

(***************************************************************************)
(* Restart: the page is loaded again and the hook mounts afresh.           *)
(***************************************************************************)
\* Seeded fault: the cell starts from the default, not from the slot.
Reload_NoLoad ==
  /\ state' = DefaultState
  /\ next' = DefaultState
  /\ scheduled' = FALSE
  /\ effectPending' = TRUE
  /\ last' = NoCall
  /\ UNCHANGED <<slot, now, calls, other>>

\* useState(loadState) of the new mount; queued updates of the old one and
\* an effect it had not yet run are gone.
Reload ==
  /\ state' = loadState(slot)
  /\ next' = loadState(slot)
  /\ scheduled' = FALSE
  /\ effectPending' = TRUE
  /\ last' = NoCall
  /\ UNCHANGED <<slot, now, calls, other>>

NextRestart == Next \/ Reload

SpecRestart == Init /\ [][NextRestart]_vars

(***************************************************************************)
(* The simple to-do view: items are added, checked and deleted, never      *)
(* edited, starting from an empty store.                                   *)
(***************************************************************************)
InitEmpty == Init /\ slot.kind # "json"

NextSimple ==
  \/ AddTodoStep
  \/ ToggleTodoStep
  \/ DeleteTodoStep
  \/ Render
  \/ RunEffect
  \/ Tick

SpecSimple == InitEmpty /\ [][NextSimple]_vars

(***************************************************************************)
(* A session that starts on a fuller document.                             *)
(***************************************************************************)
\* A to-do item of an earlier session.
OldTodo(id, dateStr) ==
  [id |-> id, text |-> "Buy milk", completed |-> FALSE, status |-> "todo",
   priority |-> "medium", createdAt |-> dateStr]

\* A document saved by an earlier session: three to-do items on one day and,
\* on the next day, an item created in the same millisecond as the first.
BusyState ==
  [habits |-> <<[id |-> "0", name |-> "Read", emoji |-> "book"]>>,
   completions |-> Put(EmptyObject, "0-2024-01-01", TRUE),
   logs |-> Put(EmptyObject, "2024-01-01", "ran 5k"),
   todos |-> Put(Put(EmptyObject, "2024-01-01",
                     <<OldTodo("0", "2024-01-01"), OldTodo("-1", "2024-01-01"),
                       OldTodo("-2", "2024-01-01")>>),
                 "2024-01-02", <<OldTodo("0", "2024-01-02")>>)]

InitBusy ==
  /\ slot = Serialize(BusyState)
  /\ state = loadState(slot)
  /\ next = state
  /\ scheduled = FALSE
  /\ effectPending = TRUE
  /\ now = 1
  /\ calls = 0
  /\ last = NoCall
  /\ other = NoTab

SpecBusy == InitBusy /\ [][Next]_vars

(***************************************************************************)
(* Properties.                                                             *)
(***************************************************************************)
\* The to-do sequence of a date key in a state value.
TodosAt(s, dateStr) == GetOrEmptySeq(s.todos, dateStr)

\* C1: every toggleTodo(d, i) call keeps the length of d's sequence, flips
\* the completed flag of each item with id i, and leaves that item's status
\* "done" when completed became true and "todo" when it became false,
\* whatever the status was before; so an un-completed item is completed/done
\* after one toggle and un-completed/todo after the next.
C1_ToggleTodoFlips ==
  [][ \A d \in Dates, i \in KnownIds :
        toggleTodo(d, i) =>
          LET before == TodosAt(next, formatDate(d))
              after == TodosAt(next', formatDate(d))
          IN  /\ Len(after) = Len(before)
              /\ \A k \in 1..Len(before) :
                   before[k].id = i =>
                     /\ after[k].completed = ~before[k].completed
                     /\ after[k].completed => after[k].status = "done"
                     /\ ~after[k].completed => after[k].status = "todo" ]_vars

\* C1 witness: the saved item "0" (completed = false) has been toggled and
\* rendered as completed/done, and a second toggleTodo call has just made it
\* un-completed/todo again.
C1_Witness ==
  /\ last = Call("toggleTodo", "2024-01-01", "0")
  /\ Len(TodosAt(state, "2024-01-01")) = 1
  /\ TodosAt(state, "2024-01-01")[1].id = "0"
  /\ TodosAt(state, "2024-01-01")[1].completed
  /\ TodosAt(state, "2024-01-01")[1].status = "done"
  /\ ~TodosAt(next, "2024-01-01")[1].completed
  /\ TodosAt(next, "2024-01-01")[1].status = "todo"

\* An item with the given id is in the date's sequence of a state value.
HasTodo(s, dateStr, todoId) ==
  \E k \in 1..Len(TodosAt(s, dateStr)) : TodosAt(s, dateStr)[k].id = todoId

\* C2 (as claimed): a toggleTodo, updateTodo or deleteTodo call whose id
\* matches no item of the date's sequence leaves the whole state value as it
\* was: habits, completions, logs and the todos mapping with its date keys.
C2_MissingIdIsNoOp ==
  [][ \A d \in Dates, i \in KnownIds :
        ( /\ ~HasTodo(next, formatDate(d), i)
          /\ \/ toggleTodo(d, i)
             \/ deleteTodo(d, i)
             \/ \E u \in TodoUpdates : updateTodo(d, i, u) )
        => next' = next ]_vars

\* Number of habits of the rendered list whose mark for the date key is true.
MarkedHabits(dateStr) ==
  Cardinality({ j \in 1..Len(state.habits) :
                  LET key == state.habits[j].id \o "-" \o dateStr
                  IN  key \in DOMAIN state.completions /\ state.completions[key] })

C4_NoHabitsRateZero ==
  Len(state.habits) = 0 => \A d \in Dates : getCompletionRate(d) = 0

\* C4 witness: every habit has been deleted and a true mark of a deleted
\* habit is still in the completions mapping.
C4_Witness ==
  /\ Len(state.habits) = 0
  /\ calls > 0
  /\ \E key \in DOMAIN state.completions : state.completions[key]

\* C5: every toggleHabit(h, d) call stores the negation of what the key
\* "{h}-{formatDate(d)}" read before (a missing key reads false), so two
\* calls in a row restore the value read before them; and in the rendered
\* state isHabitCompleted reads false for a key that is not in the mapping.
C5_ToggleHabitInverts ==
  /\ [][ \A h \in KnownIds, d \in Dates :
           toggleHabit(h, d) =>
             LET key == h \o "-" \o formatDate(d)
             IN  /\ key \in DOMAIN next'.completions
                 /\ next'.completions[key] = ~Truthy(next.completions, key) ]_vars
  /\ [](\A h \in KnownIds, d \in Dates :
          (h \o "-" \o formatDate(d)) \notin DOMAIN state.completions
            => ~isHabitCompleted(h, d))

\* C5 witness: a key that no saved document holds has been toggled twice:
\* it is stored with the value false.
C5_Witness ==
  /\ last = Call("toggleHabit", "2024-01-02", "1")
  /\ "1-2024-01-02" \in DOMAIN next.completions
  /\ ~next.completions["1-2024-01-02"]

\* C6: every deleteHabit(h) call leaves exactly the habits whose id is not
\* h, in their previous order, and leaves the completions mapping as it was,
\* so every mark of h reads as before.
C6_DeleteHabitKeepsMarks ==
  [][ \A h \in KnownIds :
        deleteHabit(h) =>
          LET before == next.habits
              after == next'.habits
              kept == { j \in 1..Len(before) : before[j].id # h }
              pos(j) == Cardinality({ i \in kept : i <= j })
          IN  /\ Len(after) = Cardinality(kept)
              /\ \A j \in kept : after[pos(j)] = before[j]
              /\ next'.completions = next.completions ]_vars

\* C6 witness: habit "0" has just been deleted, another habit is still
\* listed, and the mark of "0" is still true.
C6_Witness ==
  /\ last = Call("deleteHabit", "", "0")
  /\ Len(next.habits) > 0
  /\ \A j \in 1..Len(next.habits) : next.habits[j].id # "0"
  /\ Truthy(next.completions, "0-2024-01-01")

\* All to-do items of a state value, as (date key, position) pairs.
TodoPlaces(s) ==
  UNION { { <<ds, k>> : k \in 1..Len(s.todos[ds]) } : ds \in DOMAIN s.todos }

\* C7 (as claimed): no two habits of the list share an id, and no two to-do
\* items of the todos collection share an id.
C7_IdsUnique ==
  /\ \A i, j \in 1..Len(state.habits) :
       state.habits[i].id = state.habits[j].id => i = j
  /\ \A p, q \in TodoPlaces(state) :
       state.todos[p[1]][p[2]].id = state.todos[q[1]][q[2]].id => p = q

\* C8: every addTodo(d, text, priority, status) call appends one item to the
\* end of d's sequence and keeps the items before it; the item carries the
\* text, the priority (default "medium"), the status (default "todo"),
\* completed = (status = "done") and createdAt = formatDate(d); and the next
\* render makes getTodos return the extended sequence.
C8_AddTodoAppends ==
  [][ /\ \A d \in Dates, a \in AddTodoArgs :
           addTodo(d, "Buy milk", a[1], a[2]) =>
             LET before == TodosAt(next, formatDate(d))
                 after == TodosAt(next', formatDate(d))
                 new == after[Len(after)]
             IN  /\ Len(after) = Len(before) + 1
                 /\ \A k \in 1..Len(before) : after[k] = before[k]
                 /\ new.text = "Buy milk"
                 /\ new.priority = (IF a[1] = Undefined THEN "medium" ELSE a[1])
                 /\ new.status = (IF a[2] = Undefined THEN "todo" ELSE a[2])
                 /\ new.completed = (new.status = "done")
                 /\ new.createdAt = formatDate(d)
      /\ Render => \A d \in Dates : TodosAt(state', formatDate(d)) = TodosAt(next, formatDate(d)) ]_vars

\* C8 witness: addTodo with the defaults has just been called for the day
\* that holds the saved item "0": the sequence is that item, then the new one.
C8_Witness ==
  /\ last.op = "addTodo"
  /\ last.key = "2024-01-01"
  /\ Len(TodosAt(next, "2024-01-01")) = 2
  /\ TodosAt(next, "2024-01-01")[1].id = "0"
  /\ TodosAt(next, "2024-01-01")[2].priority = "medium"
  /\ TodosAt(next, "2024-01-01")[2].status = "todo"
  /\ ~TodosAt(next, "2024-01-01")[2].completed

\* C9: once no render is scheduled and no effect is pending, the slot holds
\* the serialization of the state that reflects every mutation called.
C9_SlotHoldsStateWhenIdle ==
  (~scheduled /\ ~effectPending) => (next = state /\ slot = Serialize(state))

\* C9 witness: two mutations have been called and saved.
C9_Witness ==
  /\ calls >= 2
  /\ ~scheduled
  /\ ~effectPending
  /\ slot = Serialize(next)
  /\ next # loadState(Serialize(SavedState))
  /\ next # DefaultState

C11_UpdateLogOverwrites ==
  /\ [][ \A d \in Dates, t \in LogTexts :
           updateLog(d, t) =>
             /\ DOMAIN next'.logs = (DOMAIN next.logs) \cup {formatDate(d)}
             /\ next'.logs[formatDate(d)] = t
             /\ \A k \in DOMAIN next.logs :
                  k # formatDate(d) => next'.logs[k] = next.logs[k] ]_vars
  /\ [](\A d \in Dates :
          getLog(d) = IF formatDate(d) \in DOMAIN state.logs
                        THEN state.logs[formatDate(d)] ELSE "")

\* C11 witness: the saved entry "ran 5k" has been overwritten with the empty
\* text, which is stored under the key and rendered; the other day has no
\* entry.
C11_Witness ==
  /\ calls > 0
  /\ "2024-01-01" \in DOMAIN state.logs
  /\ state.logs["2024-01-01"] = ""
  /\ "2024-01-02" \notin DOMAIN state.logs
  /\ getLog([day |-> "2024-01-01", hour |-> 23]) = ""

\* C12: for each window length and each present moment, the history holds
\* exactly `days` entries, one per calendar day, each the day after the one
\* before it, the last being today; every entry's rate is the completion
\* rate of its day in the rendered state.
C12_HistoryIsTrailingWindow ==
  \A today \in Dates, days \in HistoryDays :
    LET history == getCompletionHistory(days, today)
        dayOf(k) == Calendar[DayIndex(today.day) - (days - k)]
    IN  /\ Len(history) = days
        /\ history[days].date = toLocaleDateString(today)
        /\ \A k \in 1..days :
             /\ history[k].date = toLocaleDateString([day |-> dayOf(k), hour |-> 12])
             /\ history[k].rate = getCompletionRate([day |-> dayOf(k), hour |-> 12])

\* C12 witness: habit "0", marked on Jan 1 in the saved document, has been
\* marked for Jan 2 as well: the three-day history ending Jan 2 is 0, 100, 100.
C12_Witness ==
  /\ calls > 0
  /\ getCompletionHistory(3, [day |-> "2024-01-02", hour |-> 12])
       = << [date |-> "Dec 31", rate |-> 0],
            [date |-> "Jan 1", rate |-> 100],
            [date |-> "Jan 2", rate |-> 100] >>

\* C13: the slot changes only when one of the two instances saves, and a
\* save replaces the whole content of the slot by the serialization of the
\* saving instance's state: nothing of what the slot held is merged in.
C13_LastWriterWins ==
  /\ [][ RunEffect => (slot' = Serialize(state) /\ loadState(slot') = state) ]_vars
  /\ [][ OtherRunEffect =>
           (slot' = Serialize(other.state) /\ loadState(slot') = other.state) ]_vars
  /\ [][ slot' # slot => (RunEffect \/ OtherRunEffect) ]_vars

\* C13 witness: the second instance has added a habit and saved it, then
\* the first instance has saved: the slot is the first instance's state and
\* the habit of the second is not in it.
C13_Witness ==
  /\ other.open
  /\ ~other.scheduled
  /\ ~other.effectPending
  /\ ~effectPending
  /\ slot = Serialize(state)
  /\ Len(other.state.habits) > Len(state.habits)
  /\ Len(loadState(slot).habits) = Len(state.habits)

C15_SimplePathConsistent ==
  \A s \in {state, next} :
    \A p \in TodoPlaces(s) :
      LET todo == s.todos[p[1]][p[2]]
      IN  todo.completed = (todo.status = "done")

\* C15 witness: an item added as "done" (with priority "high") has been
\* un-checked: it is rendered un-completed with status "todo".
C15_Witness ==
  \E p \in TodoPlaces(state) :
    LET todo == state.todos[p[1]][p[2]]
    IN  todo.priority = "high" /\ ~todo.completed /\ todo.status = "todo"

\* The fields of a TodoItem.
TodoFields == {"id", "text", "completed", "status", "priority", "createdAt"}

\* C16: every updateTodo(d, i, updates) call keeps the length of d's
\* sequence; in each item with id i the fields named in updates take the
\* given values and all other fields keep theirs (completed too, when only
\* the status is updated); every other item stays as it was.
C16_UpdateTodoMerges ==
  [][ \A d \in Dates, i \in KnownIds, u \in TodoUpdates :
        updateTodo(d, i, u) =>
          LET before == TodosAt(next, formatDate(d))
              after == TodosAt(next', formatDate(d))
          IN  /\ Len(after) = Len(before)
              /\ \A k \in 1..Len(before) :
                   IF before[k].id = i
                     THEN /\ DOMAIN after[k] = TodoFields
                          /\ \A f \in TodoFields :
                               after[k][f] = IF f \in DOMAIN u THEN u[f] ELSE before[k][f]
                     ELSE after[k] = before[k] ]_vars

\* C16 witness: the saved item "0", followed by a second item, has just had
\* its status alone set to "done": it is still not completed, and the
\* second item is as it was rendered.
C16_Witness ==
  /\ last = Call("updateTodo", "2024-01-01", "0")
  /\ Len(TodosAt(next, "2024-01-01")) = 2
  /\ TodosAt(next, "2024-01-01")[1].id = "0"
  /\ TodosAt(next, "2024-01-01")[1].status = "done"
  /\ ~TodosAt(next, "2024-01-01")[1].completed
  /\ TodosAt(next, "2024-01-01")[1].text = "Buy milk"
  /\ TodosAt(next, "2024-01-01")[2].id # "0"
  /\ Len(TodosAt(state, "2024-01-01")) = 2
  /\ TodosAt(state, "2024-01-01")[2] = TodosAt(next, "2024-01-01")[2]

\* The item that addTodo builds at the present moment.
NewTodoNow(d, a) ==
  [id |-> ToString(now), text |-> "Buy milk",
   completed |-> ((IF a[2] = Undefined THEN "todo" ELSE a[2]) = "done"),
   status |-> IF a[2] = Undefined THEN "todo" ELSE a[2],
   priority |-> IF a[1] = Undefined THEN "medium" ELSE a[1],
   createdAt |-> formatDate(d)]

\* C17: every mutation call is applied to the result of the calls made
\* before it, rendered or not, and a render delivers the result of all of
\* them: the state is the sequential application of the calls, in call order.
C17_CallsApplyInOrder ==
  /\ [][ /\ \A h \in KnownIds, d \in Dates :
              toggleHabit(h, d) =>
                next' = toggleHabitUpdate(next, h \o "-" \o formatDate(d))
         /\ \A d \in Dates, t \in LogTexts :
              updateLog(d, t) => next' = updateLogUpdate(next, formatDate(d), t)
         /\ \A d \in Dates, a \in AddTodoArgs :
              addTodo(d, "Buy milk", a[1], a[2]) =>
                next' = addTodoUpdate(next, formatDate(d), NewTodoNow(d, a))
         /\ \A d \in Dates, i \in KnownIds :
              /\ toggleTodo(d, i) => next' = toggleTodoUpdate(next, formatDate(d), i)
              /\ deleteTodo(d, i) => next' = deleteTodoUpdate(next, formatDate(d), i)
              /\ \A u \in TodoUpdates :
                   updateTodo(d, i, u) =>
                     next' = updateTodoUpdate(next, formatDate(d), i, u)
         /\ addHabit("Walk", "shoe") =>
              next' = addHabitUpdate(next, [id |-> ToString(now), name |-> "Walk",
                                            emoji |-> "shoe"])
         /\ \A h \in KnownIds :
              deleteHabit(h) => next' = deleteHabitUpdate(next, h)
         /\ Render => state' = next ]_vars
  /\ [](~scheduled => next = state)

\* C17 witness: two toggleHabit calls for a key the rendered state does not
\* hold were made back to back: they cancel, the queued value is false.
C17_Witness ==
  /\ scheduled
  /\ last = Call("toggleHabit", "2024-01-02", "1")
  /\ "1-2024-01-02" \notin DOMAIN state.completions
  /\ "1-2024-01-02" \in DOMAIN next.completions
  /\ ~next.completions["1-2024-01-02"]

\* Two objects agree on every key but k.
SameExceptKey(m1, m2, k) ==
  /\ (DOMAIN m1) \ {k} = (DOMAIN m2) \ {k}
  /\ \A x \in (DOMAIN m1) \ {k} : m1[x] = m2[x]

\* C18: a toggleHabit call changes nothing but the completions entry of its
\* key; an updateLog call nothing but the logs entry of its date; addHabit
\* and deleteHabit nothing but the habit sequence; and addTodo, toggleTodo,
\* updateTodo and deleteTodo for a date nothing but that date's to-do
\* sequence, whatever ids the items under other dates have.
C18_MutationsTouchOwnPart ==
  [][ /\ \A h \in KnownIds, d \in Dates :
           toggleHabit(h, d) =>
             /\ next'.habits = next.habits
             /\ next'.logs = next.logs
             /\ next'.todos = next.todos
             /\ SameExceptKey(next.completions, next'.completions,
                              h \o "-" \o formatDate(d))
      /\ \A d \in Dates, t \in LogTexts :
           updateLog(d, t) =>
             /\ next'.habits = next.habits
             /\ next'.completions = next.completions
             /\ next'.todos = next.todos
             /\ SameExceptKey(next.logs, next'.logs, formatDate(d))
      /\ (addHabit("Walk", "shoe") \/ \E h \in KnownIds : deleteHabit(h)) =>
           /\ next'.completions = next.completions
           /\ next'.logs = next.logs
           /\ next'.todos = next.todos
      /\ \A d \in Dates :
           ( \/ \E a \in AddTodoArgs : addTodo(d, "Buy milk", a[1], a[2])
             \/ \E i \in KnownIds :
                  \/ toggleTodo(d, i)
                  \/ deleteTodo(d, i)
                  \/ \E u \in TodoUpdates : updateTodo(d, i, u) )
           => /\ next'.habits = next.habits
              /\ next'.completions = next.completions
              /\ next'.logs = next.logs
              /\ SameExceptKey(next.todos, next'.todos, formatDate(d)) ]_vars

\* The ids of a sequence of items, in order.
IdsOf(seq) == [k \in 1..Len(seq) |-> seq[k].id]

\* C18 witness: item "0" of Jan 1 has just been toggled while Jan 2 holds an
\* item with the same id: the one is completed, the other is not.
C18_Witness ==
  /\ last = Call("toggleTodo", "2024-01-01", "0")
  /\ IdsOf(TodosAt(next, "2024-01-01")) = <<"0", "-1", "-2">>
  /\ TodosAt(next, "2024-01-01")[1].completed
  /\ IdsOf(TodosAt(next, "2024-01-02")) = <<"0">>
  /\ ~TodosAt(next, "2024-01-02")[1].completed

\* C19: toggleTodo and updateTodo keep the length of the date's sequence and
\* the id at every position; deleteTodo(d, i) leaves exactly the items whose
\* id is not i, in their previous relative order; addTodo puts the new item
\* after all the others.
C19_TodoOrderKept ==
  [][ \A d \in Dates :
        LET before == TodosAt(next, formatDate(d))
            after == TodosAt(next', formatDate(d))
        IN  /\ \A i \in KnownIds :
                 ( toggleTodo(d, i) \/ \E u \in TodoUpdates : updateTodo(d, i, u) )
                 => /\ Len(after) = Len(before)
                    /\ IdsOf(after) = IdsOf(before)
                    /\ \A k \in 1..Len(before) : before[k].id # i => after[k] = before[k]
            /\ \A i \in KnownIds :
                 deleteTodo(d, i) =>
                   LET kept == { j \in 1..Len(before) : before[j].id # i }
                       pos(j) == Cardinality({ x \in kept : x <= j })
                   IN  /\ Len(after) = Cardinality(kept)
                       /\ \A j \in kept : after[pos(j)] = before[j]
            /\ \A a \in AddTodoArgs :
                 addTodo(d, "Buy milk", a[1], a[2]) =>
                   /\ Len(after) = Len(before) + 1
                   /\ \A k \in 1..Len(before) : after[k] = before[k] ]_vars

\* C19 witness: the first of three items has just been deleted: the other
\* two are listed in the order they had.
C19_Witness ==
  /\ last = Call("deleteTodo", "2024-01-01", "0")
  /\ IdsOf(TodosAt(state, "2024-01-01")) = <<"0", "-1", "-2">>
  /\ IdsOf(TodosAt(next, "2024-01-01")) = <<"-1", "-2">>

\* C20: the first effect saves the state that was just loaded, before any
\* mutation call: until it has run no update is queued; it replaces an
\* absent or corrupt slot by the serialized default state and leaves a valid
\* slot's content as it was; and every mutation call finds a valid slot.
C20_StartupSavesLoadedState ==
  /\ []((calls = 0 /\ effectPending) => (next = state /\ ~scheduled))
  /\ [][ (RunEffect /\ calls = 0) =>
           slot' = (IF slot.kind = "json" THEN slot ELSE Serialize(DefaultState)) ]_vars
  /\ [][ calls' # calls => (~effectPending /\ slot.kind = "json") ]_vars

\* C20 witness: startup has completed on an absent or corrupt slot, no
\* mutation has been called, and the slot holds the serialized default state.
C20_Witness ==
  /\ calls = 0
  /\ ~effectPending
  /\ state = DefaultState
  /\ slot = Serialize(DefaultState)

====
